---------------------------- MODULE Spec2Model ----------------------------
(***************************************************************************)
(* A model of lib/objects.js of node-moray: the object-related client API  *)
(* functions (putObject, getObject, deleteObject, findObjects, batch,      *)
(* updateObjects, deleteMany, reindexObjects) and the helpers they use.    *)
(*                                                                         *)
(* One behaviour is one API call: the synchronous body of the function     *)
(* (argument assertions, option normalisation, the RPC request), then the  *)
(* events of the RPC request ('data' messages, then one completion).       *)
(*                                                                         *)
(* JavaScript values are written as strings holding the literal            *)
(* ("undefined", "null", "'b'", "{}", "function(){}"); objects whose       *)
(* fields matter are records of such strings.                              *)
(***************************************************************************)
EXTENDS Integers, Sequences, FiniteSets, TLC

\* ------------------------------------------------------------------ bounds

\* The largest number of 'data' messages the transport delivers in one call.
MaxMsgs == 3

\* The largest number of requests in the list given to batch.
MaxBatch == 2

\* The largest number of calls of reindexObjects the reindex tool makes.
MaxCalls == 3

\* ------------------------------------------------------- JavaScript values

JsUndefined == "undefined"
JsNull == "null"
JsString == "'b'"
JsObject == "{}"
JsFunction == "function(){}"

\* The string literals and the numbers that occur in the model
StringLiterals ==
    {"'b'", "''", "'uuid'", "'put'", "'update'", "'delete'", "'deleteMany'",
     "'bogus'", "'{}'", "'{\"a\":1}'", "'{\"a\":2}'", "'null'", "'0'",
     "'false'", "'\"\"'", "'\"b\"'"}

NumberValue == [c \in {"-1", "0", "1", "2"} |-> CASE c = "-1" -> -1 [] c = "0" -> 0
                                                  [] c = "1" -> 1 [] OTHER -> 2]

\* typeof v
TypeOf(v) ==
    CASE v = "undefined" -> "undefined"
      [] v = "null" -> "object"
      [] v \in {"true", "false"} -> "boolean"
      [] v \in StringLiterals -> "string"
      [] v \in DOMAIN NumberValue \cup {"NaN"} -> "number"
      [] v = "function(){}" -> "function"
      [] OTHER -> "object"

\* ToBoolean(v): the values JavaScript treats as false
Truthy(v) == v \notin {"undefined", "null", "false", "0", "''"}

\* assert-plus: the type checks behind assert.<type>(arg, name)
assertString(v) == TypeOf(v) = "string"
assertObject(v) == TypeOf(v) = "object" /\ v # "null"
assertFunc(v) == TypeOf(v) = "function"
assertBool(v) == TypeOf(v) = "boolean"
assertNumber(v) == TypeOf(v) = "number"
assertOptional(v) == v = "undefined" \/ v = "null"

\* The values an argument of a call is drawn from: a value of the type the
\* function asks for, and values of other types.
ArgValues == {JsUndefined, JsNull, JsString, JsObject}
CallbackValues == {JsUndefined, JsObject, JsFunction}

\* A caller's options argument: t is the value itself when it is no object
\* ("undefined", "null", "'b'", ...) and "{}" when it is an object, whose
\* fields follow ("undefined" for an absent field).
OptionsOf(t, ri) ==
    [t |-> t, req_id |-> "undefined", etag |-> "undefined",
     _etag |-> "undefined", headers |-> "undefined",
     no_count |-> "undefined", sql_only |-> "undefined",
     noCache |-> "undefined", requireIndexes |-> ri, _value |-> "undefined"]

OptionsValues == {OptionsOf(t, "undefined") : t \in ArgValues}

\* The options of findObjects, where requireIndexes matters
FindOptionsValues ==
    OptionsValues
        \cup {OptionsOf(JsObject, ri) : ri \in {"true", "false", "'b'"}}

\* ------------------------------------------------------------- makeOptions

\* libuuid.create(): an identifier no caller supplied
FreshUuid == "'uuid'"

\* JSON.stringify(value)
JSONstringify(v) ==
    CASE v = "{}" -> "'{}'"
      [] v = "{a:1}" -> "'{\"a\":1}'"
      [] v = "{a:2}" -> "'{\"a\":2}'"
      [] v = "null" -> "'null'"
      [] v = "0" -> "'0'"
      [] v = "false" -> "'false'"
      [] v = "''" -> "'\"\"'"
      [] v = "'b'" -> "'\"b\"'"
      [] OTHER -> "undefined"

\* Mutant of makeOptions: every call gets an identifier of its own.
makeOptionsFreshId(options, value) ==
    [req_id |-> FreshUuid,
     etag |-> IF options.etag # "undefined" THEN options.etag ELSE options._etag,
     _etag |-> options._etag,
     headers |-> IF Truthy(options.headers) THEN options.headers ELSE "{}",
     no_count |-> IF Truthy(options.no_count) THEN options.no_count ELSE "false",
     sql_only |-> IF Truthy(options.sql_only) THEN options.sql_only ELSE "false",
     noCache |-> IF options.noCache # "undefined" THEN options.noCache ELSE "true",
     requireIndexes |-> options.requireIndexes,
     _value |-> IF Truthy(value) THEN JSONstringify(value) ELSE options._value]

\* Mutant of makeOptions: _value is the value itself, not serialized.
makeOptionsRawValue(options, value) ==
    [req_id |-> IF Truthy(options.req_id) THEN options.req_id ELSE FreshUuid,
     etag |-> IF options.etag # "undefined" THEN options.etag ELSE options._etag,
     _etag |-> options._etag,
     headers |-> IF Truthy(options.headers) THEN options.headers ELSE "{}",
     no_count |-> IF Truthy(options.no_count) THEN options.no_count ELSE "false",
     sql_only |-> IF Truthy(options.sql_only) THEN options.sql_only ELSE "false",
     noCache |-> IF options.noCache # "undefined" THEN options.noCache ELSE "true",
     requireIndexes |-> options.requireIndexes,
     _value |-> IF Truthy(value) THEN value ELSE options._value]

\* Mutant of makeOptions: noCache is defaulted as no_count and sql_only are.
makeOptionsTruthyNoCache(options, value) ==
    [req_id |-> IF Truthy(options.req_id) THEN options.req_id ELSE FreshUuid,
     etag |-> IF options.etag # "undefined" THEN options.etag ELSE options._etag,
     _etag |-> options._etag,
     headers |-> IF Truthy(options.headers) THEN options.headers ELSE "{}",
     no_count |-> IF Truthy(options.no_count) THEN options.no_count ELSE "false",
     sql_only |-> IF Truthy(options.sql_only) THEN options.sql_only ELSE "false",
     noCache |-> IF Truthy(options.noCache) THEN options.noCache ELSE "true",
     requireIndexes |-> options.requireIndexes,
     _value |-> IF Truthy(value) THEN JSONstringify(value) ELSE options._value]

\* makeOptions(options, value): value is "undefined" when the caller of
\* makeOptions passes none.
makeOptions(options, value) ==
    [req_id |-> IF Truthy(options.req_id) THEN options.req_id ELSE FreshUuid,
     etag |-> IF options.etag # "undefined" THEN options.etag ELSE options._etag,
     _etag |-> options._etag,
     headers |-> IF Truthy(options.headers) THEN options.headers ELSE "{}",
     no_count |-> IF Truthy(options.no_count) THEN options.no_count ELSE "false",
     sql_only |-> IF Truthy(options.sql_only) THEN options.sql_only ELSE "false",
     noCache |-> IF options.noCache # "undefined" THEN options.noCache ELSE "true",
     requireIndexes |-> options.requireIndexes,
     _value |-> IF Truthy(value) THEN JSONstringify(value) ELSE options._value]

\* ---------------------------------------------------- messages and errors

\* A 'data' message of an RPC request.  ho tells whether the object has a
\* _handledOptions field ("absent"), and whether that field is null or a
\* list (hoList); id tells ordinary records apart.
Record(i) == [kind |-> "object", id |-> i, ho |-> "absent", hoList |-> <<>>]
Metadata(l) == [kind |-> "object", id |-> 0, ho |-> "list", hoList |-> l]
MetadataNull == [kind |-> "object", id |-> 0, ho |-> "null", hoList |-> <<>>]
NullMsg == [kind |-> "null", id |-> 0, ho |-> "absent", hoList |-> <<>>]

HandledLists ==
    {<<>>, <<"requireIndexes">>, <<"other">>, <<"other", "requireIndexes">>}

ObjectMsgs ==
    {Record(1), Record(2), MetadataNull} \cup {Metadata(l) : l \in HandledLists}

\* An error value; NoErr is the null or undefined passed when there is none.
NoErr == [name |-> "null", id |-> 0, message |-> "", found |-> 0,
          unhandledOptions |-> <<>>]
TransportError(i) == [NoErr EXCEPT !.name = "TransportError", !.id = i]
TransportErrors == {TransportError(1), TransportError(2)}
VError(fmt, n) == [NoErr EXCEPT !.name = "VError", !.message = fmt, !.found = n]

\* The values a callback's second argument takes
ResUndefined == [r |-> "undefined", msg |-> NullMsg]
ResEmptyObject == [r |-> "{}", msg |-> NullMsg]
ResMsg(m) == [r |-> "msg", msg |-> m]

\* data[0]
First(d) == IF Len(d) = 0 THEN ResUndefined ELSE ResMsg(d[1])

\* ------------------------------------------------------------------- state

VARIABLES
    pc,             \* "idle", "threw" (an assertion failed), "inflight", "done"
    op,             \* the API function called, "none" before the call
    args,           \* the arguments of the call
    requests,       \* batch: the caller's list of requests, as it is now
    rpcCalls,       \* the RPC requests issued on rpcctx, in order
    delivered,      \* the 'data' messages the RPC request has emitted
    data,           \* rpcCommonBufferData: the messages buffered
    cbCalls,        \* the calls of the caller's callback: <<err, result>>
    completedWith,  \* the error the RPC request completed with, or NoErr
    emitted,        \* findObjects: the events emitted on res
    listening,      \* findObjects: onObject is a listener of req's 'data'
    gotMetadataRecord,
    handledOptions,
    isFirstDataRecord,
    needMetadataRecord,
    optionsToHandle,
    unhandledOptionsErrorEmitted,
    normPc,         \* makeOptions alone: "off", "ready", "normalized", "mutated"
    callerValue,    \* makeOptions alone: the value argument
    objects,        \* the objects options ("options") and deepCopy's ("copy")
    callerHeaders,  \* the fields of the object the caller's options.headers is
    opts,           \* the object makeOptions returned: "options" or "copy"
    inputThen,      \* the caller's options and headers when makeOptions began
    normalizedThen, \* the normalized options when makeOptions returned
    toolPc,         \* the reindex tool: where it is, "off" when it is not run
    argv,           \* the reindex tool: the arguments after the options
    toolOptions,    \* the reindex tool: what parseOptions returned
    toolCalls,      \* the reindex tool: the counts given to reindexObjects
    toolResponses,  \* the reindex tool: what the callbacks were called with
    clientClosed,   \* the reindex tool: client.close() was called
    exitCode        \* the reindex tool: the code given to process.exit

findVars ==
    <<emitted, listening, gotMetadataRecord, handledOptions, isFirstDataRecord,
      needMetadataRecord, optionsToHandle, unhandledOptionsErrorEmitted>>

\* The variables of makeOptions taken alone
normVars ==
    <<normPc, callerValue, objects, callerHeaders, opts, inputThen,
      normalizedThen>>

\* The variables of an API call
apiVars ==
    <<pc, op, args, requests, rpcCalls, delivered, data, cbCalls, completedWith,
      findVars>>

\* The variables of the reindex tool
toolVars ==
    <<toolPc, argv, toolOptions, toolCalls, toolResponses, clientClosed,
      exitCode>>

vars == <<apiVars, normVars, toolVars>>

\* The arguments of a call; a function takes some of them only.
NoArgs ==
    [rpcctx |-> "n/a", bucket |-> "n/a", key |-> "n/a", value |-> "n/a",
     fields |-> "n/a", filter |-> "n/a", count |-> "n/a", callback |-> "n/a",
     options |-> OptionsOf("n/a", "undefined"),
     requests |-> [t |-> "n/a", list |-> <<>>]]

\* No call of makeOptions taken alone is under way.
NormOff ==
    /\ normPc = "off"
    /\ callerValue = "undefined"
    /\ objects = [options |-> "none", copy |-> "none"]
    /\ callerHeaders = "none"
    /\ opts = "none"
    /\ inputThen = "none"
    /\ normalizedThen = "none"

\* No API function was called yet.
ApiIdle ==
    /\ pc = "idle"
    /\ op = "none"
    /\ args = NoArgs
    /\ requests = <<>>
    /\ rpcCalls = <<>>
    /\ delivered = <<>>
    /\ data = <<>>
    /\ cbCalls = <<>>
    /\ completedWith = NoErr
    /\ emitted = <<>>
    /\ listening = FALSE
    /\ gotMetadataRecord = FALSE
    /\ handledOptions = [requireIndexes |-> FALSE]
    /\ isFirstDataRecord = TRUE
    /\ needMetadataRecord = FALSE
    /\ optionsToHandle = <<>>
    /\ unhandledOptionsErrorEmitted = FALSE

\* The reindex tool is not run.
ToolOff ==
    /\ toolPc = "off"
    /\ argv = "none"
    /\ toolOptions = "none"
    /\ toolCalls = <<>>
    /\ toolResponses = <<>>
    /\ clientClosed = FALSE
    /\ exitCode = "none"

Init == ApiIdle /\ NormOff /\ ToolOff

\* An assertion of the called function failed: it throws before its RPC
\* request is made.
Throws(name, a) ==
    /\ pc' = "threw"
    /\ op' = name
    /\ args' = a
    /\ UNCHANGED <<toolVars, normVars, requests, rpcCalls, delivered, data, cbCalls, completedWith,
                   findVars>>

\* rpc.rpcCommon / rpc.rpcCommonBufferData: the request is issued on rpcctx.
RpcRequest(method, rpcargs, ignoreNull) ==
    [rpcmethod |-> method, rpcargs |-> rpcargs, ignoreNullValues |-> ignoreNull]

\* ------------------------------------------------------------- findObjects

\* Mutant of testNeedHandling: any value given for the option needs handling.
testNeedHandlingAnyValue(value) == value # "undefined"

\* optionsSpec.requireIndexes.testNeedHandling(value)
testNeedHandling(value) == value = "true"

\* Mutant of getUnhandledOptions: an option counts as unhandled once it is
\* in handledOptions.
getUnhandledOptionsHandledOnly(options, handled) ==
    IF /\ options.requireIndexes # "undefined"
       /\ testNeedHandling(options.requireIndexes)
       /\ handled.requireIndexes = TRUE
    THEN <<"requireIndexes">>
    ELSE <<>>

\* getUnhandledOptions(options, handledOptions, optionsSpec): optionsSpec has
\* the one entry requireIndexes, so the loop over the properties of options
\* looks at options.requireIndexes alone.
getUnhandledOptions(options, handled) ==
    IF /\ options.requireIndexes # "undefined"
       /\ testNeedHandling(options.requireIndexes)
       /\ handled.requireIndexes = FALSE
    THEN <<"requireIndexes">>
    ELSE <<>>

\* The events of res
Event(ev) == [ev |-> ev, msg |-> NullMsg, err |-> NoErr]
RecordEvent(msg) == [ev |-> "record", msg |-> msg, err |-> NoErr]
ErrorEvent(err) == [ev |-> "error", msg |-> NullMsg, err |-> err]

\* emitUnhandledOptionsError(res, unhandledOptions): the event it emits
emitUnhandledOptionsError(unhandledOptions) ==
    ErrorEvent([NoErr EXCEPT !.name = "UnhandledOptionsError",
                             !.message = "Unhandled options: ",
                             !.unhandledOptions = unhandledOptions])

\* The assertions of findObjects
findObjectsArgsOk(a) ==
    /\ assertObject(a.rpcctx)
    /\ assertString(a.bucket)
    /\ assertString(a.filter)
    /\ assertObject(a.options.t)
    /\ (assertOptional(a.options.requireIndexes)
           \/ assertBool(a.options.requireIndexes))

\* findObjects(rpcctx, bucket, filter, options), up to its return
findObjects(rpcctx, bucket, filter, options) ==
    LET a == [NoArgs EXCEPT !.rpcctx = rpcctx, !.bucket = bucket,
                            !.filter = filter, !.options = options]
        toHandle == getUnhandledOptions(options, [requireIndexes |-> FALSE])
        need == Len(toHandle) > 0
    IN  /\ pc = "idle"
        /\ IF ~findObjectsArgsOk(a)
           THEN Throws("findObjects", a)
           ELSE /\ pc' = "inflight"
                /\ op' = "findObjects"
                /\ args' = a
                /\ optionsToHandle' = toHandle
                /\ needMetadataRecord' = need
                /\ rpcCalls' = Append(rpcCalls,
                       RpcRequest("findObjects",
                           <<bucket, filter, makeOptions(options, "undefined"),
                             [sendHandledOptions |-> need]>>, FALSE))
                /\ listening' = TRUE
                /\ UNCHANGED <<toolVars, normVars, requests, delivered, data, cbCalls, completedWith, emitted,
                               gotMetadataRecord, handledOptions,
                               isFirstDataRecord, unhandledOptionsErrorEmitted>>

\* Mutant of IndexOfRequireIndexes: looks at the first name of the list only.
IndexOfRequireIndexesFirstOnly(msg) ==
    Len(msg.hoList) > 0 /\ msg.hoList[1] = "requireIndexes"

\* Mutant of IndexOfRequireIndexes: a list that names any option counts.
IndexOfRequireIndexesAnyName(msg) == Len(msg.hoList) > 0

\* msg._handledOptions.indexOf('requireIndexes') !== -1
IndexOfRequireIndexes(msg) ==
    \E i \in 1..Len(msg.hoList) : msg.hoList[i] = "requireIndexes"

\* Mutant of onObject: it does not remove itself from the listeners of req
\* after emitting the UnhandledOptionsError.
onObjectKeepsListening(msg) ==
    /\ pc = "inflight"
    /\ op = "findObjects"
    /\ listening
    /\ Len(delivered) < MaxMsgs
    /\ delivered' = Append(delivered, msg)
    /\ IF isFirstDataRecord /\ needMetadataRecord
       THEN LET got == msg.ho # "absent"
                handled ==
                    IF got /\ msg.ho = "list" /\ IndexOfRequireIndexes(msg)
                    THEN [handledOptions EXCEPT !.requireIndexes = TRUE]
                    ELSE handledOptions
                unhandledOptions == getUnhandledOptions(args.options, handled)
            IN  /\ gotMetadataRecord' = (gotMetadataRecord \/ got)
                /\ handledOptions' = handled
                /\ IF Len(unhandledOptions) > 0
                   THEN /\ emitted' = Append(emitted,
                               emitUnhandledOptionsError(unhandledOptions))
                        /\ unhandledOptionsErrorEmitted' = TRUE
                        /\ listening' = listening
                   ELSE UNCHANGED <<toolVars, normVars, emitted, unhandledOptionsErrorEmitted,
                                    listening>>
                /\ isFirstDataRecord' = FALSE
       ELSE /\ emitted' = Append(emitted, RecordEvent(msg))
            /\ UNCHANGED <<toolVars, normVars, gotMetadataRecord, handledOptions, listening,
                           isFirstDataRecord, unhandledOptionsErrorEmitted>>
    /\ UNCHANGED <<toolVars, normVars, pc, op, args, requests, rpcCalls, data, cbCalls, completedWith,
                   needMetadataRecord, optionsToHandle>>

\* Mutant of onObject: a first message that leaves no option unhandled is
\* forwarded as a 'record' as well.
onObjectForwardsMetadata(msg) ==
    /\ pc = "inflight"
    /\ op = "findObjects"
    /\ listening
    /\ Len(delivered) < MaxMsgs
    /\ delivered' = Append(delivered, msg)
    /\ IF isFirstDataRecord /\ needMetadataRecord
       THEN LET got == msg.ho # "absent"
                handled ==
                    IF got /\ msg.ho = "list" /\ IndexOfRequireIndexes(msg)
                    THEN [handledOptions EXCEPT !.requireIndexes = TRUE]
                    ELSE handledOptions
                unhandledOptions == getUnhandledOptions(args.options, handled)
            IN  /\ gotMetadataRecord' = (gotMetadataRecord \/ got)
                /\ handledOptions' = handled
                /\ IF Len(unhandledOptions) > 0
                   THEN /\ emitted' = Append(emitted,
                               emitUnhandledOptionsError(unhandledOptions))
                        /\ unhandledOptionsErrorEmitted' = TRUE
                        /\ listening' = FALSE
                   ELSE /\ emitted' = Append(emitted, RecordEvent(msg))
                        /\ UNCHANGED <<toolVars, normVars, unhandledOptionsErrorEmitted,
                                       listening>>
                /\ isFirstDataRecord' = FALSE
       ELSE /\ emitted' = Append(emitted, RecordEvent(msg))
            /\ UNCHANGED <<toolVars, normVars, gotMetadataRecord, handledOptions, listening,
                           isFirstDataRecord, unhandledOptionsErrorEmitted>>
    /\ UNCHANGED <<toolVars, normVars, pc, op, args, requests, rpcCalls, data, cbCalls, completedWith,
                   needMetadataRecord, optionsToHandle>>

\* req.on('data', function onObject(msg) {...}): the transport emits msg on
\* req and onObject, a listener, runs.
onObject(msg) ==
    /\ pc = "inflight"
    /\ op = "findObjects"
    /\ listening
    /\ Len(delivered) < MaxMsgs
    /\ delivered' = Append(delivered, msg)
    /\ IF isFirstDataRecord /\ needMetadataRecord
       THEN LET got == msg.ho # "absent"
                handled ==
                    IF got /\ msg.ho = "list" /\ IndexOfRequireIndexes(msg)
                    THEN [handledOptions EXCEPT !.requireIndexes = TRUE]
                    ELSE handledOptions
                unhandledOptions == getUnhandledOptions(args.options, handled)
            IN  /\ gotMetadataRecord' = (gotMetadataRecord \/ got)
                /\ handledOptions' = handled
                /\ IF Len(unhandledOptions) > 0
                   THEN /\ emitted' = Append(emitted,
                               emitUnhandledOptionsError(unhandledOptions))
                        /\ unhandledOptionsErrorEmitted' = TRUE
                        /\ listening' = FALSE
                   ELSE UNCHANGED <<toolVars, normVars, emitted, unhandledOptionsErrorEmitted,
                                    listening>>
                /\ isFirstDataRecord' = FALSE
       ELSE /\ emitted' = Append(emitted, RecordEvent(msg))
            /\ UNCHANGED <<toolVars, normVars, gotMetadataRecord, handledOptions, listening,
                           isFirstDataRecord, unhandledOptionsErrorEmitted>>
    /\ UNCHANGED <<toolVars, normVars, pc, op, args, requests, rpcCalls, data, cbCalls, completedWith,
                   needMetadataRecord, optionsToHandle>>

\* A 'data' message emitted on req after req.removeListener('data',
\* onObject): no listener runs.
dataWithoutListener(msg) ==
    /\ pc = "inflight"
    /\ op = "findObjects"
    /\ ~listening
    /\ Len(delivered) < MaxMsgs
    /\ delivered' = Append(delivered, msg)
    /\ UNCHANGED <<toolVars, normVars, pc, op, args, requests, rpcCalls, data, cbCalls, completedWith, findVars>>

\* Mutant of findObjectsDone: a completion without error always ends the
\* stream, a missing metadata record or not.
findObjectsDoneAlwaysEnds(err) ==
    /\ pc = "inflight"
    /\ op = "findObjects"
    /\ pc' = "done"
    /\ completedWith' = err
    /\ emitted' =
          (IF err # NoErr
           THEN Append(emitted, ErrorEvent(err))
           ELSE IF ~unhandledOptionsErrorEmitted
                THEN Append(emitted, Event("end"))
                ELSE emitted)
              \o <<Event("_moray_internal_rpc_done")>>
    /\ UNCHANGED <<toolVars, normVars, op, args, requests, rpcCalls, delivered, data, cbCalls,
                   listening, gotMetadataRecord, handledOptions,
                   isFirstDataRecord, needMetadataRecord, optionsToHandle,
                   unhandledOptionsErrorEmitted>>

\* Mutant of findObjectsDone: the missing metadata record is looked at before
\* the error of the transport.
findObjectsDoneNegotiatesFirst(err) ==
    /\ pc = "inflight"
    /\ op = "findObjects"
    /\ pc' = "done"
    /\ completedWith' = err
    /\ emitted' =
          (IF ~unhandledOptionsErrorEmitted /\ needMetadataRecord
                 /\ ~gotMetadataRecord
           THEN Append(emitted, emitUnhandledOptionsError(optionsToHandle))
           ELSE IF err # NoErr
                THEN Append(emitted, ErrorEvent(err))
                ELSE IF ~unhandledOptionsErrorEmitted
                     THEN Append(emitted, Event("end"))
                     ELSE emitted)
              \o <<Event("_moray_internal_rpc_done")>>
    /\ UNCHANGED <<toolVars, normVars, op, args, requests, rpcCalls, delivered, data, cbCalls,
                   listening, gotMetadataRecord, handledOptions,
                   isFirstDataRecord, needMetadataRecord, optionsToHandle,
                   unhandledOptionsErrorEmitted>>

\* The callback findObjects gives rpc.rpcCommon: function (err) {...}
findObjectsDone(err) ==
    /\ pc = "inflight"
    /\ op = "findObjects"
    /\ pc' = "done"
    /\ completedWith' = err
    /\ emitted' =
          (IF err # NoErr
           THEN Append(emitted, ErrorEvent(err))
           ELSE IF ~unhandledOptionsErrorEmitted
                THEN IF needMetadataRecord /\ ~gotMetadataRecord
                     THEN Append(emitted,
                              emitUnhandledOptionsError(optionsToHandle))
                     ELSE Append(emitted, Event("end"))
                ELSE emitted)
              \o <<Event("_moray_internal_rpc_done")>>
    /\ UNCHANGED <<toolVars, normVars, op, args, requests, rpcCalls, delivered, data, cbCalls,
                   listening, gotMetadataRecord, handledOptions,
                   isFirstDataRecord, needMetadataRecord, optionsToHandle,
                   unhandledOptionsErrorEmitted>>

\* ------------------------------------------------- the unary operations

\* rpc.rpcCommonBufferData: its listener of the request's 'data' pushes each
\* message on data; a null value reaches no listener when the request asks
\* for ignoreNullValues, and is not sent by the transport otherwise.
bufferData(msg) ==
    /\ pc = "inflight"
    /\ op # "findObjects"
    /\ Len(delivered) < MaxMsgs
    /\ msg = NullMsg => rpcCalls[Len(rpcCalls)].ignoreNullValues
    /\ delivered' = Append(delivered, msg)
    /\ data' = IF msg = NullMsg THEN data ELSE Append(data, msg)
    /\ UNCHANGED <<toolVars, normVars, pc, op, args, requests, rpcCalls, cbCalls, completedWith,
                   findVars>>

\* A call of the caller's callback: callback(err) and callback(null, result)
Callback(err, result) == [err |-> err, result |-> result]

\* rpc.rpcCommonBufferData completes and calls the function it was given,
\* which calls the caller's callback.
Completes(name, err, call) ==
    /\ pc = "inflight"
    /\ op = name
    /\ pc' = "done"
    /\ completedWith' = err
    /\ cbCalls' = Append(cbCalls, call)
    /\ UNCHANGED <<toolVars, normVars, op, args, requests, rpcCalls, delivered, data, findVars>>

\* The RPC request of a unary operation is made.
Requests(name, a, request) ==
    /\ pc' = "inflight"
    /\ op' = name
    /\ args' = a
    /\ rpcCalls' = Append(rpcCalls, request)
    /\ UNCHANGED <<toolVars, normVars, delivered, data, cbCalls, completedWith, findVars>>

AtMostOne == "expected at most 1 data message, found %d"
ExactlyOne == "expected exactly 1 data message, found %d"

\* putObject

putObjectArgsOk(a) ==
    /\ assertObject(a.rpcctx)
    /\ assertString(a.bucket)
    /\ assertString(a.key)
    /\ assertObject(a.value)
    /\ assertObject(a.options.t)
    /\ assertFunc(a.callback)

putObject(rpcctx, bucket, key, value, options, callback) ==
    LET a == [NoArgs EXCEPT !.rpcctx = rpcctx, !.bucket = bucket, !.key = key,
                            !.value = value, !.options = options,
                            !.callback = callback]
    IN  /\ pc = "idle"
        /\ IF ~putObjectArgsOk(a)
           THEN Throws("putObject", a)
           ELSE /\ Requests("putObject", a,
                       RpcRequest("putObject",
                           <<bucket, key, value, makeOptions(options, value)>>,
                           FALSE))
                /\ UNCHANGED requests

putObjectCallback(err, d) ==
    LET e == IF err = NoErr /\ Len(d) > 1 THEN VError(AtMostOne, Len(d)) ELSE err
    IN  IF e # NoErr
        THEN Callback(e, ResUndefined)
        ELSE Callback(NoErr, IF Len(d) = 0 THEN ResEmptyObject ELSE First(d))

putObjectDone(err) == Completes("putObject", err, putObjectCallback(err, data))

\* getObject

getObjectArgsOk(a) ==
    /\ assertObject(a.rpcctx)
    /\ assertString(a.bucket)
    /\ assertString(a.key)
    /\ assertObject(a.options.t)
    /\ assertFunc(a.callback)

getObject(rpcctx, bucket, key, options, callback) ==
    LET a == [NoArgs EXCEPT !.rpcctx = rpcctx, !.bucket = bucket, !.key = key,
                            !.options = options, !.callback = callback]
    IN  /\ pc = "idle"
        /\ IF ~getObjectArgsOk(a)
           THEN Throws("getObject", a)
           ELSE /\ Requests("getObject", a,
                       RpcRequest("getObject",
                           <<bucket, key, makeOptions(options, "undefined")>>,
                           FALSE))
                /\ UNCHANGED requests

\* Mutant of getObjectCallback: an empty response is taken for a success.
getObjectCallbackAtMostOne(err, d) ==
    LET e == IF err = NoErr /\ Len(d) > 1 THEN VError(ExactlyOne, Len(d)) ELSE err
    IN  IF e # NoErr
        THEN Callback(e, ResUndefined)
        ELSE Callback(NoErr, First(d))

getObjectCallback(err, d) ==
    LET e == IF err = NoErr /\ Len(d) # 1 THEN VError(ExactlyOne, Len(d)) ELSE err
    IN  IF e # NoErr
        THEN Callback(e, ResUndefined)
        ELSE Callback(NoErr, First(d))

getObjectDone(err) == Completes("getObject", err, getObjectCallback(err, data))

\* deleteObject

deleteObjectArgsOk(a) ==
    /\ assertObject(a.rpcctx)
    /\ assertString(a.bucket)
    /\ assertString(a.key)
    /\ assertObject(a.options.t)
    /\ assertFunc(a.callback)

\* Mutant of deleteObjectRequest: the method has the name of the function.
deleteObjectRequestOwnName(bucket, key, options) ==
    RpcRequest("deleteObject",
               <<bucket, key, makeOptions(options, "undefined")>>, TRUE)

deleteObjectRequest(bucket, key, options) ==
    RpcRequest("delObject", <<bucket, key, makeOptions(options, "undefined")>>,
               TRUE)

deleteObject(rpcctx, bucket, key, options, callback) ==
    LET a == [NoArgs EXCEPT !.rpcctx = rpcctx, !.bucket = bucket, !.key = key,
                            !.options = options, !.callback = callback]
    IN  /\ pc = "idle"
        /\ IF ~deleteObjectArgsOk(a)
           THEN Throws("deleteObject", a)
           ELSE /\ Requests("deleteObject", a,
                            deleteObjectRequest(bucket, key, options))
                /\ UNCHANGED requests

\* Mutant of deleteObjectCallback: the response is held to at most one message,
\* as that of the other operations that change objects.
deleteObjectCallbackAtMostOne(err, d) ==
    LET e == IF err = NoErr /\ Len(d) > 1 THEN VError(AtMostOne, Len(d)) ELSE err
    IN  Callback(e, ResUndefined)

deleteObjectCallback(err, d) == Callback(err, ResUndefined)

deleteObjectDone(err) ==
    Completes("deleteObject", err, deleteObjectCallback(err, data))

\* updateObjects

updateObjectsArgsOk(a) ==
    /\ assertObject(a.rpcctx)
    /\ assertString(a.bucket)
    /\ assertObject(a.fields)
    /\ assertString(a.filter)
    /\ assertObject(a.options.t)
    /\ assertFunc(a.callback)

updateObjects(rpcctx, bucket, fields, filter, options, callback) ==
    LET a == [NoArgs EXCEPT !.rpcctx = rpcctx, !.bucket = bucket,
                            !.fields = fields, !.filter = filter,
                            !.options = options, !.callback = callback]
    IN  /\ pc = "idle"
        /\ IF ~updateObjectsArgsOk(a)
           THEN Throws("updateObjects", a)
           ELSE /\ Requests("updateObjects", a,
                       RpcRequest("updateObjects",
                           <<bucket, fields, filter,
                             makeOptions(options, "undefined")>>, FALSE))
                /\ UNCHANGED requests

\* Mutant of updateObjectsCallback: the number of messages is looked at
\* whether the transport reported an error or not.
updateObjectsCallbackCountsFirst(err, d) ==
    LET e == IF Len(d) > 1 THEN VError(AtMostOne, Len(d)) ELSE err
    IN  IF e # NoErr
        THEN Callback(e, ResUndefined)
        ELSE Callback(NoErr, IF Len(d) = 0 THEN ResEmptyObject ELSE First(d))

updateObjectsCallback(err, d) ==
    LET e == IF err = NoErr /\ Len(d) > 1 THEN VError(AtMostOne, Len(d)) ELSE err
    IN  IF e # NoErr
        THEN Callback(e, ResUndefined)
        ELSE Callback(NoErr, IF Len(d) = 0 THEN ResEmptyObject ELSE First(d))

updateObjectsDone(err) ==
    Completes("updateObjects", err, updateObjectsCallback(err, data))

\* deleteMany

deleteManyArgsOk(a) ==
    /\ assertObject(a.rpcctx)
    /\ assertString(a.bucket)
    /\ assertString(a.filter)
    /\ assertObject(a.options.t)
    /\ assertFunc(a.callback)

deleteMany(rpcctx, bucket, filter, options, callback) ==
    LET a == [NoArgs EXCEPT !.rpcctx = rpcctx, !.bucket = bucket,
                            !.filter = filter, !.options = options,
                            !.callback = callback]
    IN  /\ pc = "idle"
        /\ IF ~deleteManyArgsOk(a)
           THEN Throws("deleteMany", a)
           ELSE /\ Requests("deleteMany", a,
                       RpcRequest("deleteMany",
                           <<bucket, filter, makeOptions(options, "undefined")>>,
                           FALSE))
                /\ UNCHANGED requests

deleteManyCallback(err, d) ==
    LET e == IF err = NoErr /\ Len(d) > 1 THEN VError(AtMostOne, Len(d)) ELSE err
    IN  IF e # NoErr
        THEN Callback(e, ResUndefined)
        ELSE Callback(NoErr, IF Len(d) = 0 THEN ResEmptyObject ELSE First(d))

deleteManyDone(err) == Completes("deleteMany", err, deleteManyCallback(err, data))

\* reindexObjects

\* count > 0
GreaterThanZero(count) == count \in DOMAIN NumberValue /\ NumberValue[count] > 0

\* Mutant of reindexObjectsArgsOk: count is not compared with 0.
reindexObjectsArgsOkAnyCount(a) ==
    /\ assertObject(a.rpcctx)
    /\ assertString(a.bucket)
    /\ assertNumber(a.count)
    /\ assertObject(a.options.t)
    /\ assertFunc(a.callback)

reindexObjectsArgsOk(a) ==
    /\ assertObject(a.rpcctx)
    /\ assertString(a.bucket)
    /\ assertNumber(a.count)
    /\ GreaterThanZero(a.count)
    /\ assertObject(a.options.t)
    /\ assertFunc(a.callback)

reindexObjects(rpcctx, bucket, count, options, callback) ==
    LET a == [NoArgs EXCEPT !.rpcctx = rpcctx, !.bucket = bucket,
                            !.count = count, !.options = options,
                            !.callback = callback]
    IN  /\ pc = "idle"
        /\ IF ~reindexObjectsArgsOk(a)
           THEN Throws("reindexObjects", a)
           ELSE /\ Requests("reindexObjects", a,
                       RpcRequest("reindexObjects",
                           <<bucket, count, makeOptions(options, "undefined")>>,
                           FALSE))
                /\ UNCHANGED requests

reindexObjectsCallback(err, d) ==
    LET e == IF err = NoErr /\ Len(d) # 1 THEN VError(ExactlyOne, Len(d)) ELSE err
    IN  IF e # NoErr
        THEN Callback(e, ResUndefined)
        ELSE Callback(NoErr, First(d))

reindexObjectsDone(err) ==
    Completes("reindexObjects", err, reindexObjectsCallback(err, data))

\* ------------------------------------------------------------------- batch

\* An element of the requests list: t is the element itself when it is no
\* object and "{}" when it is one, whose fields follow; headers is
\* options.headers when options is an object.
PutRequest ==
    [t |-> "{}", bucket |-> "'b'", options |-> "undefined",
     headers |-> "undefined", operation |-> "undefined", fields |-> "undefined",
     filter |-> "undefined", key |-> "'b'", value |-> "{a:1}",
     _value |-> "undefined"]
UpdateRequest ==
    [PutRequest EXCEPT !.operation = "'update'", !.fields = "{}",
                       !.filter = "'b'", !.key = "undefined",
                       !.value = "undefined"]
DeleteRequest ==
    [PutRequest EXCEPT !.operation = "'delete'", !.value = "undefined"]
DeleteManyRequest ==
    [UpdateRequest EXCEPT !.operation = "'deleteMany'", !.fields = "undefined"]

BatchRequestValues ==
    {PutRequest,
     [PutRequest EXCEPT !.operation = "'put'", !._value = "'{\"a\":2}'"],
     [PutRequest EXCEPT !.key = "undefined"],
     [PutRequest EXCEPT !.t = "null"],
     [PutRequest EXCEPT !.operation = "'bogus'"],
     [PutRequest EXCEPT !.options = "{}", !.headers = "'b'"],
     [UpdateRequest EXCEPT !.options = "{}", !.headers = "'b'"],
     UpdateRequest,
     [UpdateRequest EXCEPT !.filter = "undefined"],
     DeleteRequest,
     DeleteManyRequest}

BatchLists ==
    UNION {[1..n -> BatchRequestValues] : n \in 0..MaxBatch}

BatchRequestsValues ==
    {[t |-> "array", list |-> l] : l \in BatchLists}
        \cup {[t |-> t, list |-> <<>>] : t \in {JsUndefined, JsObject}}

\* assert.arrayOfObject(requests, 'requests')
assertArrayOfObject(reqs) ==
    /\ reqs.t = "array"
    /\ \A i \in 1..Len(reqs.list) : assertObject(reqs.list[i].t)

\* Mutant of batchRequest: a request whose operation is none of update,
\* delete and deleteMany is taken for a put, whatever it names.
batchRequestAnyOperation(r) ==
    LET put == [r EXCEPT !.operation =
                    IF Truthy(r.operation) THEN r.operation ELSE "'put'"]
        stringified ==
            IF ~Truthy(put._value)
            THEN [put EXCEPT !._value = JSONstringify(put.value)]
            ELSE put
        headers == IF Truthy(r.options) THEN r.headers ELSE "undefined"
    IN  IF ~( /\ assertString(r.bucket)
              /\ (assertOptional(r.options) \/ assertObject(r.options))
              /\ (assertOptional(r.operation) \/ assertString(r.operation)) )
        THEN [ok |-> FALSE, r |-> r]
        ELSE IF r.operation = "'update'"
        THEN [ok |-> assertObject(r.fields) /\ assertString(r.filter), r |-> r]
        ELSE IF r.operation = "'delete'"
        THEN [ok |-> assertString(r.key), r |-> r]
        ELSE IF r.operation = "'deleteMany'"
        THEN [ok |-> assertString(r.filter), r |-> r]
        ELSE IF ~( /\ assertString(put.key)
                   /\ assertObject(put.value)
                   /\ (assertOptional(put._value) \/ assertString(put._value)) )
        THEN [ok |-> FALSE, r |-> put]
        ELSE [ok |-> assertOptional(headers) \/ assertObject(headers),
              r |-> stringified]

\* Mutant of batchRequest: _value is left as the caller gave it.
batchRequestNoStringify(r) ==
    LET put == [r EXCEPT !.operation =
                    IF Truthy(r.operation) THEN r.operation ELSE "'put'"]
        stringified == put
        headers == IF Truthy(r.options) THEN r.headers ELSE "undefined"
    IN  IF ~( /\ assertString(r.bucket)
              /\ (assertOptional(r.options) \/ assertObject(r.options))
              /\ (assertOptional(r.operation) \/ assertString(r.operation)) )
        THEN [ok |-> FALSE, r |-> r]
        ELSE IF r.operation = "'update'"
        THEN [ok |-> assertObject(r.fields) /\ assertString(r.filter), r |-> r]
        ELSE IF r.operation = "'delete'"
        THEN [ok |-> assertString(r.key), r |-> r]
        ELSE IF r.operation = "'deleteMany'"
        THEN [ok |-> assertString(r.filter), r |-> r]
        ELSE IF ~( /\ put.operation = "'put'"
                   /\ assertString(put.key)
                   /\ assertObject(put.value)
                   /\ (assertOptional(put._value) \/ assertString(put._value)) )
        THEN [ok |-> FALSE, r |-> put]
        ELSE [ok |-> assertOptional(headers) \/ assertObject(headers),
              r |-> stringified]

\* The body of the loop of batch over requests[i]: ok tells whether every
\* assertion on r held, and r is the request as the body leaves it (at the
\* failing assertion when one fails).
batchRequest(r) ==
    LET put == [r EXCEPT !.operation =
                    IF Truthy(r.operation) THEN r.operation ELSE "'put'"]
        stringified ==
            IF ~Truthy(put._value)
            THEN [put EXCEPT !._value = JSONstringify(put.value)]
            ELSE put
        headers == IF Truthy(r.options) THEN r.headers ELSE "undefined"
    IN  IF ~( /\ assertString(r.bucket)
              /\ (assertOptional(r.options) \/ assertObject(r.options))
              /\ (assertOptional(r.operation) \/ assertString(r.operation)) )
        THEN [ok |-> FALSE, r |-> r]
        ELSE IF r.operation = "'update'"
        THEN [ok |-> assertObject(r.fields) /\ assertString(r.filter), r |-> r]
        ELSE IF r.operation = "'delete'"
        THEN [ok |-> assertString(r.key), r |-> r]
        ELSE IF r.operation = "'deleteMany'"
        THEN [ok |-> assertString(r.filter), r |-> r]
        ELSE IF ~( /\ put.operation = "'put'"
                   /\ assertString(put.key)
                   /\ assertObject(put.value)
                   /\ (assertOptional(put._value) \/ assertString(put._value)) )
        THEN [ok |-> FALSE, r |-> put]
        ELSE [ok |-> assertOptional(headers) \/ assertObject(headers),
              r |-> stringified]

\* Mutant of batchLoop: the loop works on requests of its own, and the
\* caller's list is left as it was.
RECURSIVE batchLoopOnCopy(_, _)
batchLoopOnCopy(list, i) ==
    IF i > Len(list)
    THEN [ok |-> TRUE, list |-> list]
    ELSE LET res == batchRequest(list[i])
         IN  IF res.ok THEN batchLoopOnCopy(list, i + 1)
             ELSE [ok |-> FALSE, list |-> list]

\* The loop of batch from requests[i] on: ok tells whether it ran to the
\* end, and list is the list as the loop leaves it.
RECURSIVE batchLoop(_, _)
batchLoop(list, i) ==
    IF i > Len(list)
    THEN [ok |-> TRUE, list |-> list]
    ELSE LET res == batchRequest(list[i])
             upd == [list EXCEPT ![i] = res.r]
         IN  IF res.ok THEN batchLoop(upd, i + 1) ELSE [ok |-> FALSE, list |-> upd]

\* The assertions of batch on its arguments
batchArgsOk(a) ==
    /\ assertObject(a.rpcctx)
    /\ assertArrayOfObject(a.requests)
    /\ assertObject(a.options.t)
    /\ assertFunc(a.callback)

\* An assertion of batch failed: it throws, and the caller's list is as the
\* loop left it.
batchThrows(a, list) ==
    /\ pc' = "threw"
    /\ op' = "batch"
    /\ args' = a
    /\ requests' = list
    /\ UNCHANGED <<toolVars, normVars, rpcCalls, delivered, data, cbCalls, completedWith,
                   findVars>>

batch(rpcctx, reqs, options, callback) ==
    LET a == [NoArgs EXCEPT !.rpcctx = rpcctx, !.requests = reqs,
                            !.options = options, !.callback = callback]
        loop == batchLoop(reqs.list, 1)
    IN  /\ pc = "idle"
        /\ IF ~batchArgsOk(a)
           THEN batchThrows(a, reqs.list)
           ELSE IF ~loop.ok
           THEN batchThrows(a, loop.list)
           ELSE /\ Requests("batch", a,
                       RpcRequest("batch",
                           <<loop.list, makeOptions(options, "undefined")>>,
                           FALSE))
                /\ requests' = loop.list

\* Mutant of batchCallback: the number of messages is not looked at.
batchCallbackAnyCount(err, d) ==
    IF err # NoErr
    THEN Callback(err, ResUndefined)
    ELSE Callback(NoErr, IF Len(d) = 0 THEN ResEmptyObject ELSE First(d))

batchCallback(err, d) ==
    LET e == IF err = NoErr /\ Len(d) > 1 THEN VError(AtMostOne, Len(d)) ELSE err
    IN  IF e # NoErr
        THEN Callback(e, ResUndefined)
        ELSE Callback(NoErr, IF Len(d) = 0 THEN ResEmptyObject ELSE First(d))

batchDone(err) == Completes("batch", err, batchCallback(err, data))

\* ------------------------------------------------------- the specification

\* The values of the arguments that are not strings or objects for every
\* function: a value to store, and a count.
ValueValues == ArgValues \cup {"{a:1}"}
CountValues == {JsUndefined, JsString, "NaN", "-1", "0", "1", "2"}

\* What the RPC request completes with: no error, or the transport's error
Completions == TransportErrors \cup {NoErr}

\* The messages a unary operation is sent
UnaryMsgs == {Record(1), Record(2), NullMsg}

\* One step: the caller calls one of the API functions, or the RPC request
\* of the call emits a 'data' message, or it completes.
Next ==
    \/ /\ pc = "idle"
       /\ \E rpcctx \in ArgValues, bucket \in ArgValues, key \in ArgValues,
             value \in ValueValues, options \in OptionsValues,
             callback \in CallbackValues :
              putObject(rpcctx, bucket, key, value, options, callback)
    \/ /\ pc = "idle"
       /\ \E rpcctx \in ArgValues, bucket \in ArgValues, key \in ArgValues,
             options \in OptionsValues, callback \in CallbackValues :
              getObject(rpcctx, bucket, key, options, callback)
    \/ /\ pc = "idle"
       /\ \E rpcctx \in ArgValues, bucket \in ArgValues, key \in ArgValues,
             options \in OptionsValues, callback \in CallbackValues :
              deleteObject(rpcctx, bucket, key, options, callback)
    \/ /\ pc = "idle"
       /\ \E rpcctx \in ArgValues, bucket \in ArgValues, filter \in ArgValues,
             options \in FindOptionsValues :
              findObjects(rpcctx, bucket, filter, options)
    \/ /\ pc = "idle"
       /\ \E rpcctx \in ArgValues, reqs \in BatchRequestsValues,
             options \in OptionsValues, callback \in CallbackValues :
              batch(rpcctx, reqs, options, callback)
    \/ /\ pc = "idle"
       /\ \E rpcctx \in ArgValues, bucket \in ArgValues, fields \in ArgValues,
             filter \in ArgValues, options \in OptionsValues,
             callback \in CallbackValues :
              updateObjects(rpcctx, bucket, fields, filter, options, callback)
    \/ /\ pc = "idle"
       /\ \E rpcctx \in ArgValues, bucket \in ArgValues, filter \in ArgValues,
             options \in OptionsValues, callback \in CallbackValues :
              deleteMany(rpcctx, bucket, filter, options, callback)
    \/ /\ pc = "idle"
       /\ \E rpcctx \in ArgValues, bucket \in ArgValues, count \in CountValues,
             options \in OptionsValues, callback \in CallbackValues :
              reindexObjects(rpcctx, bucket, count, options, callback)
    \/ \E msg \in ObjectMsgs : onObject(msg)
    \/ \E msg \in ObjectMsgs : dataWithoutListener(msg)
    \/ \E msg \in UnaryMsgs : bufferData(msg)
    \/ \E err \in Completions : findObjectsDone(err)
    \/ \E err \in Completions : putObjectDone(err)
    \/ \E err \in Completions : getObjectDone(err)
    \/ \E err \in Completions : deleteObjectDone(err)
    \/ \E err \in Completions : batchDone(err)
    \/ \E err \in Completions : updateObjectsDone(err)
    \/ \E err \in Completions : deleteManyDone(err)
    \/ \E err \in Completions : reindexObjectsDone(err)

Spec == Init /\ [][Next]_vars

\* ------------------------------------------------ makeOptions taken alone

\* The value of the caller's options.headers when it is an object: a
\* reference to that object, whose fields are callerHeaders.
CallerHeadersRef == "@callerHeaders"

\* The fields the caller's headers object holds
HeadersValues == {"{}", "{x:1}"}

\* The options makeOptions is called with: req_id, noCache and headers
\* absent or given, a falsy req_id and a false noCache included.
NormOptionsValues ==
    {[OptionsOf(JsObject, "undefined") EXCEPT
          !.req_id = r, !.noCache = n, !.headers = h] :
        r \in {"undefined", "'b'", "''"},
        n \in {"undefined", "true", "false"},
        h \in {"undefined", CallerHeadersRef}}
    \cup {[OptionsOf(JsObject, "undefined") EXCEPT !._value = "'{}'"]}

\* The value makeOptions is called with: none, an object, and falsy values
PayloadValues == {"undefined", "{a:1}", "0", "false", "null", "''"}

\* Mutant of deepCopy: the object itself is returned.
deepCopyAlias(ref) == ref

\* jsprim.deepCopy(obj): the object it returns, one of its own
deepCopy(ref) == "copy"

\* The fields of object o, with the fields h of the caller's headers object
\* in place of a reference to it
Deref(o, h) ==
    [o EXCEPT !.headers = IF o.headers = CallerHeadersRef THEN h
                          ELSE o.headers]

InitOptions ==
    /\ ApiIdle
    /\ normPc = "ready"
    /\ callerValue \in PayloadValues
    /\ \E o \in NormOptionsValues :
          /\ objects = [options |-> o, copy |-> "none"]
          /\ callerHeaders \in IF o.headers = CallerHeadersRef
                               THEN HeadersValues ELSE {"none"}
    /\ opts = "none"
    /\ inputThen = "none"
    /\ normalizedThen = "none"
    /\ ToolOff

\* A call makeOptions(options, value): the assignments to opts write to the
\* object deepCopy returned.
makeOptionsCall ==
    LET target == deepCopy("options")
        written == [t |-> "{}"] @@ makeOptions(objects.options, callerValue)
    IN  /\ normPc = "ready"
        /\ normPc' = "normalized"
        /\ objects' = [objects EXCEPT ![target] = written]
        /\ opts' = target
        /\ inputThen' = [options |-> objects.options, headers |-> callerHeaders]
        /\ normalizedThen' = Deref(written, callerHeaders)
        /\ UNCHANGED <<toolVars, apiVars, callerValue, callerHeaders>>

\* After the call, the caller assigns to a field of its options object.
callerSetsOption(f, v) ==
    /\ normPc = "normalized"
    /\ normPc' = "mutated"
    /\ objects' = [objects EXCEPT !.options[f] = v]
    /\ UNCHANGED <<toolVars, apiVars, callerValue, callerHeaders, opts, inputThen,
                   normalizedThen>>

\* After the call, the caller assigns to a field of its headers object.
callerSetsHeader(h) ==
    /\ normPc = "normalized"
    /\ inputThen.options.headers = CallerHeadersRef
    /\ h # callerHeaders
    /\ normPc' = "mutated"
    /\ callerHeaders' = h
    /\ UNCHANGED <<toolVars, apiVars, callerValue, objects, opts, inputThen,
                   normalizedThen>>

NextOptions ==
    \/ makeOptionsCall
    \/ \E f \in {"req_id", "noCache", "headers"}, v \in {"'c'", "undefined"} :
          callerSetsOption(f, v)
    \/ \E h \in HeadersValues : callerSetsHeader(h)

SpecOptions == InitOptions /\ [][NextOptions]_vars

\* ------------------------------------------------------- the reindex tool

\* process.argv after the options: bucket and count, "undefined" when the
\* command line has none; count is the text given.
ArgvCountValues == {"undefined", "abc", "1", "5", "100", "1000"}
ArgvValues ==
    {[bucket |-> "undefined", count |-> "undefined"]}
        \cup {[bucket |-> "'b'", count |-> c] : c \in ArgvCountValues}

\* A number of the tool: NaN, or the integer n
NaN == [nan |-> TRUE, n |-> 0]
Number(n) == [nan |-> FALSE, n |-> n]

\* parseInt(str, 10) on the texts of ArgvCountValues
parseInt(str) ==
    CASE str = "1" -> Number(1)
      [] str = "5" -> Number(5)
      [] str = "100" -> Number(100)
      [] str = "1000" -> Number(1000)
      [] OTHER -> NaN

\* ToInt32(v), which the operands of | go through: NaN becomes 0, and the
\* integers of the model are below 2^31
ToInt32(v) == IF v.nan THEN 0 ELSE v.n

\* a | b on non-negative integers: the bitwise or
RECURSIVE BitOr(_, _)
BitOr(a, b) ==
    IF a = 0 THEN b
    ELSE IF b = 0 THEN a
    ELSE (IF a % 2 = 1 \/ b % 2 = 1 THEN 1 ELSE 0)
             + 2 * BitOr(a \div 2, b \div 2)

\* The count of parseOptions when the command line gives none
DefaultCount == 100

\* parseOptions(): the bucket and count it returns for the arguments a
parseOptions(a) ==
    [bucket |-> a.bucket,
     count |-> BitOr(ToInt32(parseInt(a.count)), DefaultCount)]

\* What the callback given to client.reindexObjects is called with: an error,
\* or a result whose processed field is a number or missing
ReindexResponses ==
    {[err |-> TRUE, processed |-> "undefined"]}
        \cup {[err |-> FALSE, processed |-> n] : n \in {"0", "1", "2", "undefined"}}

\* What the callback given to client.getBucket is called with: an error, a
\* bucket with reindex_active empty or missing, a bucket being reindexed
GetBucketResponses == {"error", "inactive", "active"}

InitReindex ==
    /\ ApiIdle
    /\ NormOff
    /\ toolPc = "start"
    /\ argv \in ArgvValues
    /\ toolOptions = "none"
    /\ toolCalls = <<>>
    /\ toolResponses = <<>>
    /\ clientClosed = FALSE
    /\ exitCode = "none"

\* process.exit(code)
Exit(code) ==
    /\ toolPc' = "exited"
    /\ exitCode' = code

\* var options = parseOptions(); moray.createClient(...): without a bucket,
\* usage() exits.
parseOptionsCall ==
    /\ toolPc = "start"
    /\ IF argv.bucket = "undefined"
       THEN Exit("1") /\ UNCHANGED toolOptions
       ELSE /\ toolPc' = "connecting"
            /\ toolOptions' = parseOptions(argv)
            /\ UNCHANGED exitCode
    /\ UNCHANGED <<apiVars, normVars, argv, toolCalls, toolResponses,
                   clientClosed>>

\* client.on('connect', onConnect): checkBucket calls client.getBucket.
onConnect ==
    /\ toolPc = "connecting"
    /\ toolPc' = "getBucket"
    /\ UNCHANGED <<apiVars, normVars, argv, toolOptions, toolCalls,
                   toolResponses, clientClosed, exitCode>>

\* reindexLoop(cb): client.reindexObjects(options.bucket, options.count, ...)
reindexLoop ==
    /\ toolCalls' = Append(toolCalls, toolOptions.count)
    /\ toolPc' = "reindexObjects"

\* The callback of client.getBucket in checkBucket, and the function given
\* to checkBucket
checkBucketCallback(bucket) ==
    /\ toolPc = "getBucket"
    /\ IF bucket = "error" THEN Exit("1") /\ UNCHANGED toolCalls
       ELSE IF bucket = "inactive" THEN Exit("0") /\ UNCHANGED toolCalls
       ELSE reindexLoop /\ UNCHANGED exitCode
    /\ UNCHANGED <<apiVars, normVars, argv, toolOptions, toolResponses,
                   clientClosed>>

\* Mutant of processedIsZero: a result without processed ends the loop too.
processedIsFalsy(response) == response.processed \in {"0", "undefined"}

\* res.processed === 0
processedIsZero(response) == response.processed = "0"

\* The callback of client.reindexObjects in reindexLoop, and the function
\* given to reindexLoop
reindexLoopCallback(response) ==
    /\ toolPc = "reindexObjects"
    /\ toolResponses' = Append(toolResponses, response)
    /\ IF response.err
       THEN Exit("1") /\ UNCHANGED clientClosed
       ELSE IF processedIsZero(response)
       THEN /\ clientClosed' = TRUE
            /\ toolPc' = "closing"
            /\ UNCHANGED exitCode
       ELSE /\ toolPc' = "nextTick"
            /\ UNCHANGED <<clientClosed, exitCode>>
    /\ UNCHANGED <<apiVars, normVars, argv, toolOptions, toolCalls>>

\* process.nextTick(reindexLoop.bind(null, cb))
nextTick ==
    /\ toolPc = "nextTick"
    /\ Len(toolCalls) < MaxCalls
    /\ reindexLoop
    /\ UNCHANGED <<apiVars, normVars, argv, toolOptions, toolResponses,
                   clientClosed, exitCode>>

\* client.once('close', process.exit.bind(process, 0))
onClose ==
    /\ toolPc = "closing"
    /\ Exit("0")
    /\ UNCHANGED <<apiVars, normVars, argv, toolOptions, toolCalls,
                   toolResponses, clientClosed>>

NextReindex ==
    \/ parseOptionsCall
    \/ onConnect
    \/ \E bucket \in GetBucketResponses : checkBucketCallback(bucket)
    \/ \E response \in ReindexResponses : reindexLoopCallback(response)
    \/ nextTick
    \/ onClose

SpecReindex == InitReindex /\ [][NextReindex]_vars

\* ------------------------------------------------- findObjects: properties

\* The events of one kind emitted on res, in order
EventsOf(ev) == SelectSeq(emitted, LAMBDA e : e.ev = ev)

IsUnhandledOptionsError(e) ==
    e.ev = "error" /\ e.err.name = "UnhandledOptionsError"

\* The 'record' events that forward the messages list, in order
RecordEvents(list) == [i \in 1..Len(list) |-> RecordEvent(list[i])]

\* The request of findObjects was made with requireIndexes: true
RequireIndexesCall ==
    /\ op = "findObjects"
    /\ pc \in {"inflight", "done"}
    /\ args.options.requireIndexes = "true"

\* The request of findObjects was made with no option to acknowledge
NoAcknowledgmentCall ==
    /\ op = "findObjects"
    /\ pc \in {"inflight", "done"}
    /\ args.options.requireIndexes \in {"undefined", "false"}

\* The transport has delivered no metadata record: no message, or a first
\* message without a _handledOptions field
NoMetadataRecord == delivered = <<>> \/ delivered[1].ho = "absent"

\* The first message is a metadata record that acknowledges requireIndexes
AcknowledgedFirst ==
    /\ delivered # <<>>
    /\ delivered[1].ho = "list"
    /\ \E i \in 1..Len(delivered[1].hoList) :
          delivered[1].hoList[i] = "requireIndexes"

CompletedOk == pc = "done" /\ completedWith = NoErr
CompletedWithError == pc = "done" /\ completedWith # NoErr

\* C1: findObjects with requireIndexes = true, no metadata record delivered
\* (an empty stream, or a first message without _handledOptions) and a
\* completion without error: res has emitted one error, an
\* UnhandledOptionsError listing exactly <<"requireIndexes">>, no 'end' and
\* no 'record'.
C1_NoMetadataEndsUnhandled ==
    (RequireIndexesCall /\ CompletedOk /\ NoMetadataRecord) =>
        /\ EventsOf("error") =
              <<emitUnhandledOptionsError(<<"requireIndexes">>)>>
        /\ EventsOf("end") = <<>>
        /\ EventsOf("record") = <<>>

C1_Witness ==
    /\ RequireIndexesCall /\ CompletedOk
    /\ delivered = <<Record(1), Record(2)>>
    /\ EventsOf("error") = <<emitUnhandledOptionsError(<<"requireIndexes">>)>>

\* C2: findObjects with requireIndexes = true and a first message that is a
\* metadata record acknowledging requireIndexes: the messages after it, and
\* only they, are emitted as 'record' events in the order received, as they
\* arrive; after a completion without error res has emitted exactly those
\* records and then 'end', and no 'error'.
C2_AcknowledgedForwardsAll ==
    (RequireIndexesCall /\ AcknowledgedFirst) =>
        /\ EventsOf("record") = RecordEvents(Tail(delivered))
        /\ pc = "inflight" => emitted = RecordEvents(Tail(delivered))
        /\ CompletedOk =>
              emitted = RecordEvents(Tail(delivered))
                            \o <<Event("end"), Event("_moray_internal_rpc_done")>>

C2_Witness ==
    /\ RequireIndexesCall /\ CompletedOk
    /\ delivered = <<Metadata(<<"other", "requireIndexes">>), Record(2), Record(1)>>
    /\ EventsOf("end") # <<>>

\* C3: findObjects with requireIndexes absent or false: every message
\* delivered is emitted as a 'record' event, in order, a first message with a
\* _handledOptions field included; a completion without error emits 'end',
\* and no UnhandledOptionsError is ever emitted.
C3_NoAcknowledgmentForwardsAll ==
    NoAcknowledgmentCall =>
        /\ EventsOf("record") = RecordEvents(delivered)
        /\ \A i \in 1..Len(emitted) : ~IsUnhandledOptionsError(emitted[i])
        /\ CompletedOk =>
              emitted = RecordEvents(delivered)
                            \o <<Event("end"), Event("_moray_internal_rpc_done")>>

C3_Witness ==
    /\ NoAcknowledgmentCall /\ CompletedOk
    /\ args.options.requireIndexes = "false"
    /\ delivered = <<Metadata(<<"requireIndexes">>), Record(1)>>
    /\ Len(EventsOf("record")) = 2

\* C4: once an UnhandledOptionsError has been emitted on res, no 'record'
\* event is emitted after it, whatever the transport delivers next.
C4_NoRecordAfterUnhandled ==
    \A i \in 1..Len(emitted) : \A j \in 1..Len(emitted) :
        (i < j /\ IsUnhandledOptionsError(emitted[i])) =>
            emitted[j].ev # "record"

\* An UnhandledOptionsError was emitted at the first message and the
\* transport has delivered two more messages since.
C4_Witness ==
    /\ op = "findObjects"
    /\ Len(delivered) = 3
    /\ delivered[1] = Metadata(<<"other">>)
    /\ delivered[2] = Record(1)
    /\ emitted # <<>> /\ IsUnhandledOptionsError(emitted[1])

\* C5 as stated: the transport's error is emitted as it is, and when the RPC
\* completes with an error while acknowledgment was required and no metadata
\* record was seen, the transport's error is the only error emitted (no
\* UnhandledOptionsError) and no 'end' is emitted.
C5_Original ==
    (op = "findObjects" /\ CompletedWithError) =>
        /\ \E i \in 1..Len(emitted) : emitted[i] = ErrorEvent(completedWith)
        /\ (needMetadataRecord /\ ~gotMetadataRecord) =>
              /\ EventsOf("error") = <<ErrorEvent(completedWith)>>
              /\ EventsOf("end") = <<>>

\* C5, amended: when the RPC completes with an error, the completion emits
\* the transport's error as it is, once, and neither an UnhandledOptionsError
\* nor 'end'; no 'end' is emitted at all, and the only other error res can
\* have emitted is the UnhandledOptionsError raised when the first message
\* was processed.  With acknowledgment required and no message delivered
\* before the completion, the transport's error is the only event besides the
\* internal one.
C5_TransportErrorForwarded ==
    (op = "findObjects" /\ CompletedWithError) =>
        /\ EventsOf("end") = <<>>
        /\ EventsOf("error") =
              (IF unhandledOptionsErrorEmitted
               THEN <<emitUnhandledOptionsError(<<"requireIndexes">>)>>
               ELSE <<>>) \o <<ErrorEvent(completedWith)>>
        /\ unhandledOptionsErrorEmitted =>
              (delivered # <<>> /\ IsUnhandledOptionsError(emitted[1]))
        /\ (needMetadataRecord /\ delivered = <<>>) =>
              emitted = <<ErrorEvent(completedWith),
                          Event("_moray_internal_rpc_done")>>

C5_Witness ==
    /\ op = "findObjects" /\ CompletedWithError
    /\ needMetadataRecord /\ ~gotMetadataRecord
    /\ delivered = <<>>
    /\ emitted = <<ErrorEvent(TransportError(2)),
                   Event("_moray_internal_rpc_done")>>

\* -------------------------------------------- unary operations: properties

ExactlyOneOps == {"getObject", "reindexObjects"}
AtMostOneOps == {"putObject", "updateObjects", "deleteMany", "batch"}
UnaryOps == ExactlyOneOps \cup AtMostOneOps \cup {"deleteObject"}

\* The callback was called with an error and no result
FailureCall(c) == c.err # NoErr /\ c.result = ResUndefined

\* C6: getObject and reindexObjects, after a completion without error: the
\* callback was called once, with the message as the result when exactly
\* one message was delivered, and with an error and no result when none or
\* two or more were.
C6_ExactlyOneMessage ==
    (op \in ExactlyOneOps /\ CompletedOk) =>
        /\ Len(cbCalls) = 1
        /\ IF Len(delivered) = 1
           THEN cbCalls[1] = Callback(NoErr, ResMsg(delivered[1]))
           ELSE FailureCall(cbCalls[1])

C6_Witness ==
    /\ op = "reindexObjects" /\ CompletedOk
    /\ delivered = <<>>
    /\ Len(cbCalls) = 1 /\ cbCalls[1].err.name = "VError"

\* C7: putObject, updateObjects, deleteMany and batch, after a completion
\* without error: the callback was called once; with an empty object when no
\* message was delivered, with the message when one was, and with an error
\* and no result when two or more were.
C7_AtMostOneMessage ==
    (op \in AtMostOneOps /\ CompletedOk) =>
        /\ Len(cbCalls) = 1
        /\ cbCalls[1] =
              CASE Len(delivered) = 0 -> Callback(NoErr, ResEmptyObject)
                [] Len(delivered) = 1 -> Callback(NoErr, ResMsg(delivered[1]))
                [] OTHER -> Callback(VError(AtMostOne, Len(delivered)),
                                     ResUndefined)

C7_Witness ==
    /\ op = "batch" /\ CompletedOk
    /\ Len(delivered) = 2
    /\ Len(cbCalls) = 1 /\ FailureCall(cbCalls[1])

\* C8: every unary operation: when the transport reports an error the
\* callback is called once with that error, unchanged, and no result,
\* however many messages were delivered; the callback gets an error about
\* the number of messages only when the transport reported none.
C8_TransportErrorUnchanged ==
    (op \in UnaryOps /\ pc = "done") =>
        /\ Len(cbCalls) = 1
        /\ completedWith # NoErr =>
              cbCalls[1] = Callback(completedWith, ResUndefined)
        /\ cbCalls[1].err.name = "VError" => completedWith = NoErr

C8_Witness ==
    /\ op = "updateObjects" /\ CompletedWithError
    /\ Len(delivered) = 2
    /\ cbCalls = <<Callback(TransportError(1), ResUndefined)>>

\* C9: deleteObject makes its request as delObject with ignoreNullValues,
\* and its callback is called once with what the transport reported (no error
\* on a completion without error) and no result, whatever the number of
\* messages delivered: never with an error about their number.
C9_DeleteIgnoresData ==
    (op = "deleteObject" /\ pc \in {"inflight", "done"}) =>
        /\ Len(rpcCalls) = 1
        /\ rpcCalls[1].rpcmethod = "delObject"
        /\ rpcCalls[1].ignoreNullValues
        /\ pc = "done" => cbCalls = <<Callback(completedWith, ResUndefined)>>

C9_Witness ==
    /\ op = "deleteObject" /\ CompletedOk
    /\ delivered = <<Record(1), NullMsg, Record(2)>>
    /\ cbCalls = <<Callback(NoErr, ResUndefined)>>

\* ------------------------------------------------- validation: properties

\* The values of the types the operations ask for
StringValue(v) == v \in StringLiterals
ObjectValue(v) == v \in {"{}", "{a:1}", "{a:2}"}
FunctionValue(v) == v = "function(){}"
PositiveNumber(v) == v \in {"1", "2"}

\* The required fields of one request of a batch, by its operation (a put
\* when it names none)
RequestInputsGiven(r) ==
    /\ ObjectValue(r.t)
    /\ StringValue(r.bucket)
    /\ CASE r.operation \in {"undefined", "'put'"} ->
                StringValue(r.key) /\ ObjectValue(r.value)
         [] r.operation = "'update'" ->
                ObjectValue(r.fields) /\ StringValue(r.filter)
         [] r.operation = "'delete'" -> StringValue(r.key)
         [] r.operation = "'deleteMany'" -> StringValue(r.filter)
         [] OTHER -> TRUE

\* Every required input of the operation called is there and of its type
InputsGiven ==
    /\ ObjectValue(args.rpcctx)
    /\ ObjectValue(args.options.t)
    /\ op # "findObjects" => FunctionValue(args.callback)
    /\ op # "batch" => StringValue(args.bucket)
    /\ op \in {"putObject", "getObject", "deleteObject"} =>
          StringValue(args.key)
    /\ op = "putObject" => ObjectValue(args.value)
    /\ op = "updateObjects" => ObjectValue(args.fields)
    /\ op \in {"findObjects", "updateObjects", "deleteMany"} =>
          StringValue(args.filter)
    /\ op = "findObjects" =>
          args.options.requireIndexes \in {"undefined", "true", "false"}
    /\ op = "reindexObjects" => PositiveNumber(args.count)
    /\ op = "batch" =>
          /\ args.requests.t = "array"
          /\ \A i \in 1..Len(args.requests.list) :
                RequestInputsGiven(args.requests.list[i])

\* C10: every operation called with a required input missing or of the wrong
\* type (reindexObjects with count <= 0 included) throws, and makes no RPC
\* request on the context; no operation that throws has made one.
C10_InvalidInputNoRpc ==
    /\ (pc # "idle" /\ ~InputsGiven) => pc = "threw"
    /\ pc = "threw" => (rpcCalls = <<>> /\ cbCalls = <<>> /\ emitted = <<>>)

C10_Witness ==
    /\ pc = "threw" /\ op = "reindexObjects"
    /\ args.count = "0"
    /\ ObjectValue(args.rpcctx) /\ StringValue(args.bucket)
    /\ ObjectValue(args.options.t) /\ FunctionValue(args.callback)
    /\ rpcCalls = <<>>

\* ------------------------------------------------------ batch: properties

\* The request the caller gave at position i
GivenRequest(i) == args.requests.list[i]

\* The caller's request r is a put: it names the operation 'put', or none
IsPut(r) == r.operation \in {"undefined", "null", "''", "'put'"}

\* The caller's request r names an operation that is none of the four
UnrecognizedOperation(r) ==
    r.operation \notin {"undefined", "null", "''", "'put'", "'update'",
                        "'delete'", "'deleteMany'"}

\* batch was called with arguments that pass its assertions on rpcctx,
\* requests, options and callback
BatchCalled == op = "batch" /\ pc # "idle" /\ batchArgsOk(args)

\* batch has made its RPC request
BatchSubmitted == op = "batch" /\ pc \in {"inflight", "done"}

\* C11: a batch whose list holds, at any position, a request with an
\* unrecognized operation, or a put without a string key, throws and makes
\* no RPC request.
C11_BadRequestNoRpc ==
    (BatchCalled /\ \E i \in 1..Len(args.requests.list) :
         \/ UnrecognizedOperation(GivenRequest(i))
         \/ IsPut(GivenRequest(i)) /\ ~StringValue(GivenRequest(i).key))
    => (pc = "threw" /\ rpcCalls = <<>>)

\* A valid put first, then a request with an unrecognized operation
C11_Witness ==
    /\ BatchCalled /\ pc = "threw" /\ rpcCalls = <<>>
    /\ Len(args.requests.list) = 2
    /\ GivenRequest(1) = PutRequest
    /\ GivenRequest(2).operation = "'bogus'"

\* C12: in every batch that is submitted, every put carries a _value equal
\* to the JSON serialization of its value, a put whose caller supplied a
\* _value of its own included.
C12_ValueNeverDiverges ==
    BatchSubmitted =>
        \A i \in 1..Len(requests) :
            requests[i].operation = "'put'" =>
                requests[i]._value = JSONstringify(requests[i].value)

\* C13: a put given without a _value has, after validation, a _value equal
\* to the JSON serialization of its value, and the request sent in the
\* arguments of the RPC is that one.
C13_AbsentValueDerived ==
    BatchSubmitted =>
        \A i \in 1..Len(requests) :
            (IsPut(GivenRequest(i)) /\ GivenRequest(i)._value = "undefined") =>
                /\ requests[i]._value = JSONstringify(GivenRequest(i).value)
                /\ requests[i].value = GivenRequest(i).value
                /\ rpcCalls[1].rpcargs[1][i] = requests[i]

C13_Witness ==
    /\ BatchSubmitted
    /\ Len(requests) = 2
    /\ GivenRequest(2) = PutRequest
    /\ rpcCalls[1].rpcargs[1][2]._value = "'{\"a\":1}'"

\* C14: a batch with a request, of whatever operation, whose options.headers
\* is present and no object throws and makes no RPC request.
C14_HeadersChecked ==
    (BatchCalled /\ \E i \in 1..Len(args.requests.list) :
         /\ GivenRequest(i).options = "{}"
         /\ GivenRequest(i).headers # "undefined"
         /\ ~ObjectValue(GivenRequest(i).headers))
    => (pc = "threw" /\ rpcCalls = <<>>)

\* ------------------------------------------------ makeOptions: properties

\* makeOptions has returned
Normalized == normPc \in {"normalized", "mutated"}

\* The options makeOptions was called with
GivenOptions == inputThen.options

\* The object makeOptions returned, as it is now
NormalizedOptions == Deref(objects[opts], callerHeaders)

\* The statement of C15 as made: a req_id that was defined, whatever its
\* value, is kept, and an identifier is generated only when it was absent.
C15_Original ==
    Normalized =>
        /\ NormalizedOptions.req_id # "undefined"
        /\ GivenOptions.req_id # "undefined" =>
               NormalizedOptions.req_id = GivenOptions.req_id
        /\ NormalizedOptions.req_id = FreshUuid =>
               GivenOptions.req_id = "undefined"

\* C15 (amended): the normalized req_id is always defined; it is the
\* caller's req_id whenever that one is truthy, and a generated identifier
\* whenever it is absent or falsy, the empty string included.
C15_ReqIdKeptWhenTruthy ==
    Normalized =>
        /\ Truthy(NormalizedOptions.req_id)
        /\ Truthy(GivenOptions.req_id) =>
               NormalizedOptions.req_id = GivenOptions.req_id
        /\ ~Truthy(GivenOptions.req_id) =>
               NormalizedOptions.req_id = FreshUuid

C15_Witness ==
    /\ normPc = "normalized"
    /\ GivenOptions.req_id = "''"
    /\ NormalizedOptions.req_id = FreshUuid

C16_WitnessFalsy ==
    /\ normPc = "normalized"
    /\ callerValue = "0"
    /\ NormalizedOptions._value = "undefined"

\* C17: the normalized options share no object with the caller's options:
\* whatever the caller assigns afterwards to a field of its options or of
\* its headers, the normalized options are as they were when makeOptions
\* returned.
C17_NoSharedStructure ==
    Normalized => NormalizedOptions = normalizedThen

\* C18: makeOptions does not change the options it is given: when it
\* returns, every field of the caller's options, and of its headers, is as
\* it was before the call.
C18_InputNotMutated ==
    normPc = "normalized" =>
        /\ objects.options = inputThen.options
        /\ callerHeaders = inputThen.headers

\* makeOptions has written fields the caller's options did not have
C18_Witness ==
    /\ normPc = "normalized"
    /\ GivenOptions.req_id = "undefined"
    /\ GivenOptions.headers = "undefined"
    /\ NormalizedOptions.req_id = FreshUuid
    /\ NormalizedOptions.headers = "{}"
    /\ objects.options.req_id = "undefined"

\* C19: the normalized noCache is true when the caller gave none, and the
\* caller's value whenever it gave one, an explicit false included.
C19_NoCacheDefault ==
    Normalized =>
        /\ GivenOptions.noCache = "undefined" =>
               NormalizedOptions.noCache = "true"
        /\ GivenOptions.noCache # "undefined" =>
               NormalizedOptions.noCache = GivenOptions.noCache

C19_Witness ==
    /\ normPc = "normalized"
    /\ GivenOptions.noCache = "false"
    /\ NormalizedOptions.noCache = "false"

\* ------------------------------------- findObjects: the acknowledgment flag

\* C20: the request of findObjects carries sendHandledOptions true exactly
\* when some option needs acknowledgment, which is exactly when the caller's
\* requireIndexes is true; with requireIndexes false, absent or anything
\* else the flag is false.
C20_FlagIffRequireIndexes ==
    (op = "findObjects" /\ pc \in {"inflight", "done"}) =>
        /\ Len(rpcCalls) = 1
        /\ rpcCalls[1].rpcargs[4].sendHandledOptions = needMetadataRecord
        /\ rpcCalls[1].rpcargs[4].sendHandledOptions
               = (args.options.requireIndexes = "true")

C20_Witness ==
    /\ RequireIndexesCall
    /\ rpcCalls[1].rpcargs[4].sendHandledOptions = TRUE

C20_WitnessFalse ==
    /\ op = "findObjects" /\ pc = "inflight"
    /\ args.options.requireIndexes = "false"
    /\ rpcCalls[1].rpcargs[4].sendHandledOptions = FALSE

\* ------------------------------- findObjects: the metadata record, the end

\* The first message is a metadata record that does not acknowledge
\* requireIndexes: its _handledOptions is null, empty, or names other options
UnacknowledgedFirst ==
    /\ delivered # <<>>
    /\ delivered[1].ho # "absent"
    /\ ~AcknowledgedFirst

\* C21: findObjects with requireIndexes = true and a first message that is a
\* metadata record without "requireIndexes" in its _handledOptions: the
\* first event of res, emitted when that message is processed, is an
\* UnhandledOptionsError listing exactly <<"requireIndexes">>; no 'record'
\* is ever emitted, and no 'end', a completion without error included.
C21_UnacknowledgedFirstEndsUnhandled ==
    (RequireIndexesCall /\ UnacknowledgedFirst) =>
        /\ emitted # <<>>
        /\ emitted[1] = emitUnhandledOptionsError(<<"requireIndexes">>)
        /\ EventsOf("record") = <<>>
        /\ EventsOf("end") = <<>>
        /\ CompletedOk =>
              emitted = <<emitUnhandledOptionsError(<<"requireIndexes">>),
                          Event("_moray_internal_rpc_done")>>

\* A metadata record naming another option, a record, a clean completion
C21_Witness ==
    /\ RequireIndexesCall /\ CompletedOk
    /\ Len(delivered) = 2
    /\ delivered[1] = Metadata(<<"other">>)
    /\ delivered[2] = Record(1)
    /\ EventsOf("record") = <<>>

\* C22: findObjects with acknowledgment requested: a first message with a
\* _handledOptions field is never emitted as a 'record', whether it
\* acknowledges the options or not, and only the first message is taken for
\* metadata: the records emitted are the later messages (those with a
\* _handledOptions field included) when it acknowledges, and none when not.
C22_MetadataNeverForwarded ==
    (RequireIndexesCall /\ delivered # <<>> /\ delivered[1].ho # "absent") =>
        EventsOf("record") =
            IF AcknowledgedFirst THEN RecordEvents(Tail(delivered)) ELSE <<>>

\* An acknowledging first message, then a message with a _handledOptions
\* field, which is forwarded
C22_Witness ==
    /\ RequireIndexesCall
    /\ Len(delivered) = 2
    /\ delivered[1] = Metadata(<<"requireIndexes">>)
    /\ delivered[2] = Metadata(<<"requireIndexes">>)
    /\ EventsOf("record") = <<RecordEvent(delivered[2])>>

\* ------------------------------------------------- the RPC request of a call

\* The rpcmethod of each API function
RpcMethodOf(name) == IF name = "deleteObject" THEN "delObject" ELSE name

\* C23: a function called with valid arguments makes exactly one RPC request
\* on rpcctx, with the method of its name (delObject for deleteObject), and
\* no second one, whatever messages, result or error follow.
C23_ExactlyOneRpc ==
    (pc \in {"inflight", "done"}) =>
        /\ Len(rpcCalls) = 1
        /\ rpcCalls[1].rpcmethod = RpcMethodOf(op)

C23_Witness ==
    /\ op = "deleteObject" /\ CompletedWithError
    /\ Len(rpcCalls) = 1
    /\ rpcCalls[1].rpcmethod = "delObject"

\* C24: in every call of findObjects, whatever the messages and the
\* completion, res emits exactly one terminal event in all, an 'end' or an
\* 'error': at most one at any time, one once the RPC has completed, never
\* two errors and never an 'error' and an 'end'.
C24_ExactlyOneTerminalEvent ==
    (op = "findObjects" /\ pc \in {"inflight", "done"}) =>
        /\ Len(EventsOf("end")) + Len(EventsOf("error")) <= 1
        /\ pc = "done" => Len(EventsOf("end")) + Len(EventsOf("error")) = 1

\* ------------------------------------------- batch: what validation changes

\* The caller's request r with operation 'put' when it is a put that named
\* none
WithOperation(r) ==
    IF IsPut(r) /\ ~Truthy(r.operation)
    THEN [r EXCEPT !.operation = "'put'"]
    ELSE r

\* The caller's request r as a validation that accepts it leaves it: a put
\* has its operation, and a _value when it had no non-empty one; any other
\* request is as it was.
Validated(r) ==
    IF IsPut(r) /\ ~Truthy(r._value)
    THEN [WithOperation(r) EXCEPT !._value = JSONstringify(r.value)]
    ELSE WithOperation(r)

\* The statement of C25 as made: a validation that accepts the list leaves
\* every request as Validated tells, and one that fails leaves the list
\* exactly as the caller passed it.
C25_Original ==
    BatchCalled =>
        /\ Len(requests) = Len(args.requests.list)
        /\ pc # "threw" =>
              \A i \in 1..Len(requests) : requests[i] = Validated(GivenRequest(i))
        /\ pc = "threw" => requests = args.requests.list

\* C25 (amended): the length and the order of the list never change.  A
\* validation that accepts the list leaves every request as Validated tells.
\* A validation that fails on the request at position f leaves the requests
\* before f as Validated tells, the requests after f as the caller passed
\* them, and the request at f as passed, or with its operation set, or as
\* Validated tells (when its headers fail).
C25_ValidationFrame ==
    BatchCalled =>
        /\ Len(requests) = Len(args.requests.list)
        /\ pc # "threw" =>
              \A i \in 1..Len(requests) : requests[i] = Validated(GivenRequest(i))
        /\ pc = "threw" =>
              \E f \in 1..Len(requests) :
                 /\ \A i \in 1..(f - 1) : requests[i] = Validated(GivenRequest(i))
                 /\ \A i \in (f + 1)..Len(requests) : requests[i] = GivenRequest(i)
                 /\ requests[f] \in {GivenRequest(f), WithOperation(GivenRequest(f)),
                                     Validated(GivenRequest(f))}

\* The second request fails, and the first one has been changed
C25_Witness ==
    /\ BatchCalled /\ pc = "threw"
    /\ Len(requests) = 2
    /\ GivenRequest(1) = PutRequest
    /\ requests[1] # GivenRequest(1)
    /\ requests[1] = Validated(GivenRequest(1))
    /\ requests[2] = GivenRequest(2)

\* ------------------------------------------------ the reindex tool: properties

\* The last response the tool got
LastResponse == toolResponses[Len(toolResponses)]

\* C26: the reindex tool calls reindexObjects one call at a time, the next
\* one only after the callback of the one before; every response before the
\* last is a result whose processed is not 0; after a result with processed
\* 0 the tool closes the client, makes no further call and exits with 0;
\* after an error it makes no further call and exits with 1; after any other
\* result it goes on.
C26_LoopUntilZero ==
    toolPc # "off" =>
        /\ Len(toolCalls) - Len(toolResponses) \in {0, 1}
        /\ Len(toolCalls) > Len(toolResponses) <=> toolPc = "reindexObjects"
        /\ \A i \in 1..(Len(toolResponses) - 1) :
              ~toolResponses[i].err /\ toolResponses[i].processed # "0"
        /\ clientClosed =>
              (toolResponses # <<>> /\ ~LastResponse.err
                  /\ LastResponse.processed = "0")
        /\ (toolResponses # <<>> /\ toolPc # "reindexObjects") =>
              IF LastResponse.err
              THEN toolPc = "exited" /\ exitCode = "1" /\ ~clientClosed
              ELSE IF LastResponse.processed = "0"
              THEN /\ clientClosed
                   /\ toolPc \in {"closing", "exited"}
                   /\ exitCode = IF toolPc = "exited" THEN "0" ELSE "none"
              ELSE toolPc = "nextTick" /\ ~clientClosed /\ exitCode = "none"

\* Two results with objects processed, then one with none: the tool stops
C26_Witness ==
    /\ toolPc = "exited" /\ exitCode = "0" /\ clientClosed
    /\ Len(toolCalls) = 3
    /\ Len(toolResponses) = 3
    /\ toolResponses[2].processed = "undefined"
    /\ toolResponses[3].processed = "0"

\* C27: every call of reindexObjects by the tool has the count of the
\* command line when that is a positive integer, and 100 when the command
\* line has none.
C27_CountOfCommandLine ==
    \A i \in 1..Len(toolCalls) :
        /\ ~parseInt(argv.count).nan => toolCalls[i] = parseInt(argv.count).n
        /\ argv.count = "undefined" => toolCalls[i] = DefaultCount

====
